---- MODULE Spec2Model ----
(***************************************************************************)
(* Weather trend analysis API for Obzor: the /weather-trend handler of     *)
(* app.py, the weather fetchers of weather_data.py, the video probe of     *)
(* video_analysis.py, the older handler of backup_app.py, and above all    *)
(* analyze_weather_trend, which turns the LLM's free text into three       *)
(* narrative fields.                                                       *)
(*                                                                         *)
(* Strings.  A Python str is modelled as a sequence of fragments, each a   *)
(* non-empty TLA+ string; concatenation is \o and the empty str is <<>>.   *)
(* The text generated by the LLM is held one character per fragment, so    *)
(* that split, strip, lower, replace and "in" are computed on characters   *)
(* as Python computes them.  The fixed Bulgarian sentences of the source   *)
(* are held as one fragment each; they and the keywords are written in     *)
(* Latin transliteration, because the module is ASCII.                     *)
(***************************************************************************)
EXTENDS Integers, Sequences, FiniteSets, TLC

\* ------------------------------------------------------------ str methods

UpperLetters == <<"A","B","C","D","E","F","G","H","I","J","K","L","M",
                  "N","O","P","Q","R","S","T","U","V","W","X","Y","Z">>
LowerLetters == <<"a","b","c","d","e","f","g","h","i","j","k","l","m",
                  "n","o","p","q","r","s","t","u","v","w","x","y","z">>

\* str.lower() on one character
LowerChar(c) ==
    IF \E i \in 1..Len(UpperLetters) : UpperLetters[i] = c
    THEN LowerLetters[CHOOSE i \in 1..Len(UpperLetters) : UpperLetters[i] = c]
    ELSE c

\* str.lower()
Lower(s) == [i \in 1..Len(s) |-> LowerChar(s[i])]

\* the characters str.strip() removes
Whitespace == {" ", "\n", "\t", "\r"}

RECURSIVE LStrip(_)
LStrip(s) ==
    IF s # <<>> /\ Head(s) \in Whitespace THEN LStrip(Tail(s)) ELSE s

RECURSIVE RStrip(_)
RStrip(s) ==
    IF s # <<>> /\ s[Len(s)] \in Whitespace
    THEN RStrip(SubSeq(s, 1, Len(s) - 1))
    ELSE s

\* str.strip()
Strip(s) == RStrip(LStrip(s))

\* s starts with pat
StartsWith(s, pat) ==
    Len(s) >= Len(pat) /\ SubSeq(s, 1, Len(pat)) = pat

\* "pat in s"
Contains(s, pat) ==
    \E i \in 1..(Len(s) - Len(pat) + 1) : SubSeq(s, i, i + Len(pat) - 1) = pat

\* s.replace(pat, ""): every non-overlapping occurrence, leftmost first
RECURSIVE RemoveAll(_, _)
RemoveAll(s, pat) ==
    IF Len(s) < Len(pat) THEN s
    ELSE IF StartsWith(s, pat)
         THEN RemoveAll(SubSeq(s, Len(pat) + 1, Len(s)), pat)
         ELSE <<Head(s)>> \o RemoveAll(Tail(s), pat)

\* s.split(sep): the pieces between the occurrences of sep, empty ones kept
RECURSIVE SplitFrom(_, _, _)
SplitFrom(s, sep, cur) ==
    IF s = <<>> THEN <<cur>>
    ELSE IF StartsWith(s, sep)
         THEN <<cur>> \o SplitFrom(SubSeq(s, Len(sep) + 1, Len(s)), sep, <<>>)
         ELSE SplitFrom(Tail(s), sep, Append(cur, Head(s)))

Split(s, sep) == SplitFrom(s, sep, <<>>)

\* sep.join(parts)
RECURSIVE Join(_, _)
Join(parts, sep) ==
    IF parts = <<>> THEN <<>>
    ELSE IF Len(parts) = 1 THEN parts[1]
    ELSE parts[1] \o sep \o Join(Tail(parts), sep)

\* [x for x in xs if keep(x)] over the stripped pieces of a split
RECURSIVE StrippedNonEmpty(_)
StrippedNonEmpty(pieces) ==
    IF pieces = <<>> THEN <<>>
    ELSE IF Strip(Head(pieces)) # <<>>
         THEN <<Strip(Head(pieces))>> \o StrippedNonEmpty(Tail(pieces))
         ELSE StrippedNonEmpty(Tail(pieces))

BlankLine == <<"\n", "\n">>


\* ------------------------------------------------ analyze_weather_trend

\* the keyword sets of the scan (transliterated), one character per fragment
AnalysisKeywords == { <<"v","r","e","m","e">>,
                      <<"n","e","b","e">>,
                      <<"t","e","m","p","e","r","a","t","u","r","a">> }
InfluenceKeywords == { <<"v","l","i","y","a","n","i","e">>,
                       <<"u","s","e","s","h","t","a","n","e">>,
                       <<"n","a","s","t","r","o","e","n","i","e">> }
SunnyDayKeywords == { <<"s","l","a","n","c","h","e","v">>,
                      <<"h","e","l","i","o","p","o","l","i","s">> }

\* ("k1" in p_lower or "k2" in p_lower or ...)
ContainsAny(s, keywords) == \E k \in keywords : Contains(s, k)

\* p.replace("1.", "").replace("2.", "").replace("3.", "").strip()
\* p.replace("1)", "").replace("2)", "").replace("3)", "").strip()
RemoveMarkers(p) ==
    LET a == Strip(RemoveAll(RemoveAll(RemoveAll(p, <<"1",".">>), <<"2",".">>), <<"3",".">>))
    IN  Strip(RemoveAll(RemoveAll(RemoveAll(a, <<"1",")">>), <<"2",")">>), <<"3",")">>))

\* paragraphs = [p.strip() for p in generated_text.split('\n\n') if p.strip()]
Paragraphs(generated_text) == StrippedNonEmpty(Split(generated_text, BlankLine))

NoSections == [analysis |-> <<>>, influence |-> <<>>, sunny_day |-> <<>>]

\* mutant: the scan stores the lowered paragraph
ScanParagraph_StoresLowered(acc, p) ==
    LET p_lower == Lower(p)
        q == RemoveMarkers(p_lower)
    IN  IF acc.analysis = <<>> /\ ContainsAny(p_lower, AnalysisKeywords)
        THEN [acc EXCEPT !.analysis = q]
        ELSE IF acc.influence = <<>> /\ ContainsAny(p_lower, InfluenceKeywords)
        THEN [acc EXCEPT !.influence = q]
        ELSE IF acc.sunny_day = <<>> /\ ContainsAny(p_lower, SunnyDayKeywords)
        THEN [acc EXCEPT !.sunny_day = q]
        ELSE acc

\* mutant: three separate if tests, so a paragraph goes to every empty
\* bucket whose keyword it holds
ScanParagraph_SeparateTests(acc, p) ==
    LET p_lower == Lower(p)
        q == RemoveMarkers(p)
    IN  [analysis  |-> IF acc.analysis = <<>> /\ ContainsAny(p_lower, AnalysisKeywords)
                       THEN q ELSE acc.analysis,
         influence |-> IF acc.influence = <<>> /\ ContainsAny(p_lower, InfluenceKeywords)
                       THEN q ELSE acc.influence,
         sunny_day |-> IF acc.sunny_day = <<>> /\ ContainsAny(p_lower, SunnyDayKeywords)
                       THEN q ELSE acc.sunny_day]

\* one iteration of "for p in paragraphs": the if / elif / elif chain
ScanParagraph(acc, p) ==
    LET p_lower == Lower(p)
        q == RemoveMarkers(p)
    IN  IF acc.analysis = <<>> /\ ContainsAny(p_lower, AnalysisKeywords)
        THEN [acc EXCEPT !.analysis = q]
        ELSE IF acc.influence = <<>> /\ ContainsAny(p_lower, InfluenceKeywords)
        THEN [acc EXCEPT !.influence = q]
        ELSE IF acc.sunny_day = <<>> /\ ContainsAny(p_lower, SunnyDayKeywords)
        THEN [acc EXCEPT !.sunny_day = q]
        ELSE acc

\* the keyword scan: the loop over the first n paragraphs
RECURSIVE KeywordScan(_, _)
KeywordScan(paragraphs, n) ==
    IF n = 0 THEN NoSections
    ELSE ScanParagraph(KeywordScan(paragraphs, n - 1), paragraphs[n])

\* mutant: the positional fallback passes over a paragraph the scan has given
\* to a bucket
PositionalFallback_Unclaimed(acc, paragraphs) ==
    LET claimed == {acc.analysis, acc.influence, acc.sunny_day}
        Free(i) == Len(paragraphs) >= i /\ RemoveMarkers(paragraphs[i]) \notin claimed
    IN  [analysis  |-> IF acc.analysis = <<>> /\ Free(1)
                       THEN paragraphs[1] ELSE acc.analysis,
         influence |-> IF acc.influence = <<>> /\ Free(2)
                       THEN paragraphs[2] ELSE acc.influence,
         sunny_day |-> IF acc.sunny_day = <<>> /\ Free(3)
                       THEN paragraphs[3] ELSE acc.sunny_day]

\* "if not analysis and paragraphs: analysis = paragraphs[0]" and the two after it
PositionalFallback(acc, paragraphs) ==
    [analysis  |-> IF acc.analysis = <<>> /\ Len(paragraphs) > 0
                   THEN paragraphs[1] ELSE acc.analysis,
     influence |-> IF acc.influence = <<>> /\ Len(paragraphs) > 1
                   THEN paragraphs[2] ELSE acc.influence,
     sunny_day |-> IF acc.sunny_day = <<>> /\ Len(paragraphs) > 2
                   THEN paragraphs[3] ELSE acc.sunny_day]

DefaultAnalysis == <<"Vremeto v momenta e priyatno za razhodka iz drevniya Grad na Slantseto.">>
DefaultInfluence == <<"Usloviyata predrazpolagat kam priyatni razhodki i aktivnosti na otkrito.">>
DefaultSunnyDay == <<"Denyat nosi tipichnoto za Heliopolis slanchevo nastroenie.">>

\* mutant: the textual fallback is skipped
TextualFallback_Skipped(acc) == acc

\* mutant: one default sentence for all three buckets
TextualFallback_OneDefault(acc) ==
    [analysis  |-> IF acc.analysis = <<>> THEN DefaultAnalysis ELSE acc.analysis,
     influence |-> IF acc.influence = <<>> THEN DefaultAnalysis ELSE acc.influence,
     sunny_day |-> IF acc.sunny_day = <<>> THEN DefaultAnalysis ELSE acc.sunny_day]

\* "if not analysis: analysis = ..." and the two after it
TextualFallback(acc) ==
    [analysis  |-> IF acc.analysis = <<>> THEN DefaultAnalysis ELSE acc.analysis,
     influence |-> IF acc.influence = <<>> THEN DefaultInfluence ELSE acc.influence,
     sunny_day |-> IF acc.sunny_day = <<>> THEN DefaultSunnyDay ELSE acc.sunny_day]

\* the sections set by the inner "except Exception"
ParseErrorSections ==
    [analysis  |-> <<"V momenta v drevniya Grad na Slantseto vremeto e priyatno, s lek morski briz i promenliva oblachnost.">>,
     influence |-> <<"Atmosferata predrazpolaga kam spokoyni razhodki pokray moreto, kadeto shumat na valnite sazdava useshtane za bezmetezhnost.">>,
     sunny_day |-> <<"Vapreki promenlivata oblachnost, Heliopolis ne gubi svoya slanchev harakter, napomnyayki ni za drevnata si istoriya kato Grad na Slantseto.">>]

\* the body of the inner try on a str
ParseText(generated_text) ==
    LET paragraphs == Paragraphs(generated_text)
    IN  TextualFallback(
            PositionalFallback(KeywordScan(paragraphs, Len(paragraphs)), paragraphs))

\* The dicts analyze_weather_trend returns: keys is the set of keys present.
NarrativeKeys == {"analiz", "vliyanie", "slanchev_den"}
ErrorKeys == {"status", "error_details"}

SuccessResult(sections) ==
    [keys |-> NarrativeKeys,
     analiz |-> sections.analysis,
     vliyanie |-> sections.influence,
     slanchev_den |-> sections.sunny_day,
     status |-> <<>>,
     error_details |-> <<>>]

\* return {... "status": "error", "error_details": ...}
ErrorResult(analiz, vliyanie, slanchev_den, details) ==
    [keys |-> NarrativeKeys \cup ErrorKeys,
     analiz |-> analiz,
     vliyanie |-> vliyanie,
     slanchev_den |-> slanchev_den,
     status |-> <<"error">>,
     error_details |-> details]

\* JSON values.  A value is a record with a tag, so that values of different
\* JSON types can be compared: "missing" is a key the dict does not hold,
\* "null" is None.
JMissing == [tag |-> "missing", num |-> 0]
JNull == [tag |-> "null", num |-> 0]
JNum(n) == [tag |-> "num", num |-> n]

\* f"{x}" of dict.get(key, "N/A"): the default for a missing key, str(None),
\* str(number)
FormatTemp(temp_c) ==
    IF temp_c.tag = "missing" THEN <<"N/A">>
    ELSE IF temp_c.tag = "null" THEN <<"None">>
    ELSE <<ToString(temp_c.num)>>

\* str(e) of the AttributeError raised by None.get
NoneHasNoGet == <<"'NoneType' object has no attribute 'get'">>

\* return values and raised exceptions of the modelled calls
Returned(v) == [raised |-> FALSE, value |-> v, error |-> <<>>]
Raised(msg) == [raised |-> TRUE, value |-> <<>>, error |-> msg]

\* forecast_data.get("current", {}).get("temp_c", "N/A"), formatted
CurrentTempText(forecast_data) ==
    IF forecast_data.current.tag = "null" THEN Raised(NoneHasNoGet)
    ELSE IF forecast_data.current.tag = "missing" THEN Returned(FormatTemp(JMissing))
    ELSE Returned(FormatTemp(forecast_data.current.temp_c))

MissingKeyDetails == <<"Lipsva ANTHROPIC_API_KEY">>

\* the dict returned when ANTHROPIC_API_KEY is not set
MissingKeyResult(current_temp) ==
    ErrorResult(
        <<"[!] AI analizat vremenno nedostapen (lipsva API klyuch). Bazovite danni pokazvat temperatura ot ">>
            \o current_temp \o <<" C v Obzor.">>,
        <<"[!] Poradi lipsa na AI analiz, preporachvame da sledite meteorologichnite usloviya ot standartnata prognoza.">>,
        <<"[!] AI otsenkata za 'slanchev den' ne e nalichna poradi lipsvasht API klyuch.">>,
        MissingKeyDetails)

\* error_msg = f"Tehnicheski problem s AI analiza (kod: {response.status_code})"
UpstreamErrorMsg(status_code) ==
    <<"Tehnicheski problem s AI analiza (kod: ", ToString(status_code), ")">>

\* the dict returned on response.status_code != 200
UpstreamFailureResult(status_code) ==
    ErrorResult(
        <<"[!] ">> \o UpstreamErrorMsg(status_code)
            \o <<". V momenta v drevniya Grad na Slantseto vremeto e priyatno za razhodki, no nashite sistemi vremenno ne mogat da predostavyat detaylen analiz.">>,
        <<"[!] Poradi tehnicheska poddrazhka na AI sistemite, molya proverete prognozata ot drugi iztochnitsi. Mezhduvremenno mozhete da se nasladite na morskiya briz.">>,
        <<"[!] Vremenno nedostapna informatsiya poradi tehnicheski problem s AI analiza.">>,
        UpstreamErrorMsg(status_code))

SystemErrorPrefix == "Sistemna greshka: "

\* error_msg = f"Sistemna greshka: {str(e)}"
SystemErrorMsg(error) == <<SystemErrorPrefix>> \o error

\* the dict returned by the outer "except Exception as e"
SystemErrorResult(error) ==
    ErrorResult(
        <<"[!] ">> \o SystemErrorMsg(error)
            \o <<". Bazovite ni sistemi pokazvat tipichno kraymorsko vreme v Heliopolis.">>,
        <<"[!] Poradi tehnicheski problem ne mozhem da predostavim detaylen analiz. Molya, proverete drugi iztochnitsi.">>,
        <<"[!] Vremenno nedostapna informatsiya poradi sistemna greshka.">>,
        SystemErrorMsg(error))

EmptyResponseError == <<"Prazen otgovor ot AI modela">>

\* The body of the LLM's response, by what the code does with it:
\*   invalid_json      response.json() raises
\*   not_object        result is a list: result.get raises AttributeError
\*   content_missing   no "content" key: result.get("content", []) is []
\*   content_empty     "content": []
\*   content_null      "content": null
\*   content_dict      "content": {"type": "text"}: content[0] raises KeyError
\*   block_not_object  "content": ["..."]: content[0].get raises AttributeError
\*   text_missing      "content": [{...}] without "text": the default ""
\*   text_null         "content": [{"text": null}]: None.split raises
\*   text              "content": [{"text": <str>}]
Body(tag, text) == [tag |-> tag, text |-> text]

\* mutant: only a 5xx status is taken as a failure
StatusIsOk_Below500(status_code) == status_code < 500

\* response.status_code != 200, negated
StatusIsOk(status_code) == status_code = 200

\* mutant: an absent or empty content list is read as an empty text
GeneratedText_EmptyContentAsText(body) ==
    CASE body.tag = "invalid_json" -> Raised(<<"Expecting value: line 1 column 1 (char 0)">>)
      [] body.tag = "not_object" -> Raised(<<"'list' object has no attribute 'get'">>)
      [] body.tag = "content_dict" -> Raised(<<"0">>)
      [] body.tag = "block_not_object" -> Raised(<<"'str' object has no attribute 'get'">>)
      [] body.tag = "text_null" -> Returned([tag |-> "null", text |-> <<>>])
      [] body.tag = "text" -> Returned([tag |-> "str", text |-> body.text])
      [] OTHER -> Returned([tag |-> "str", text |-> <<>>])

\* result = response.json() ... generated_text = content[0].get("text", ""):
\* the generated text, or the exception raised on the way
GeneratedText(body) ==
    CASE body.tag = "invalid_json" -> Raised(<<"Expecting value: line 1 column 1 (char 0)">>)
      [] body.tag = "not_object" -> Raised(<<"'list' object has no attribute 'get'">>)
      [] body.tag \in {"content_missing", "content_empty", "content_null"} ->
            Raised(EmptyResponseError)
      [] body.tag = "content_dict" -> Raised(<<"0">>)
      [] body.tag = "block_not_object" -> Raised(<<"'str' object has no attribute 'get'">>)
      [] body.tag = "text_missing" -> Returned([tag |-> "str", text |-> <<>>])
      [] body.tag = "text_null" -> Returned([tag |-> "null", text |-> <<>>])
      [] OTHER -> Returned([tag |-> "str", text |-> body.text])

\* mutant: no inner try, a text that is not a str is parsed as ""
ParseSections_NoInnerTry(generated_text) == ParseText(generated_text.text)

\* the inner try / except around the split and the scan: a generated_text that
\* is not a str has no split, and the except sets the three fixed sections
ParseSections(generated_text) ==
    IF generated_text.tag = "str"
    THEN ParseText(generated_text.text)
    ELSE ParseErrorSections

\* analyze_weather_trend after "await client.post(...)" has returned or raised:
\* outcome.kind is "exception" (the post raised, outcome.error is str(e)) or
\* "response"
AfterDispatch(outcome) ==
    IF outcome.kind = "exception" THEN SystemErrorResult(outcome.error)
    ELSE IF ~StatusIsOk(outcome.status_code) THEN UpstreamFailureResult(outcome.status_code)
    ELSE LET generated_text == GeneratedText(outcome.body)
         IN  IF generated_text.raised
             THEN SystemErrorResult(generated_text.error)
             ELSE SuccessResult(ParseSections(generated_text.value))

\* "if not KEY": None and "" are both falsy
KeyIsSet(key) == key # ""

\* analyze_weather_trend before the dispatch: the dict it returns without a
\* network call
Preflight(forecast_data) ==
    LET current_temp == CurrentTempText(forecast_data)
    IN  IF current_temp.raised
        THEN SystemErrorResult(current_temp.error)
        ELSE MissingKeyResult(current_temp.value)

\* ------------------------------------------------------- sample inputs

\* bounds of the model
MaxParagraphs == 3
MaxHandlerParagraphs == 1
MaxErrorBodyParagraphs == 1

\* Paragraphs the LLM may write (before they are joined by blank lines):
\* with one bucket's keyword, with none, with two buckets' keywords, with a
\* leading enumeration marker, with a decimal number, and only whitespace.
SampleParagraphs ==
    { <<"1","."," ","V","r","e","m","e">>,
      <<"v","l","i","y","a","n","i","e">>,
      <<"s","l","a","n","c","h","e","v">>,
      <<"o","b","l","a","k">>,
      <<"n","e","b","e"," ","2","1",".","5">>,
      <<"2",")"," ","m","o","r","e">>,
      <<"n","e","b","e"," ","v","l","i","y","a","n","i","e">>,
      <<"s","l","a","n","c","h","e","v"," ","v","l","i","y","a","n","i","e">>,
      <<" ">> }

\* the texts of at most n sample paragraphs, joined by blank lines
Texts(n) ==
    UNION { { Join(f, BlankLine) : f \in [1..k -> SampleParagraphs] } : k \in 0..n }

NoTextBodyTags ==
    {"invalid_json", "not_object", "content_missing", "content_empty", "content_null",
     "content_dict", "block_not_object", "text_missing", "text_null"}

\* the bodies of an LLM response whose text has at most n paragraphs
Bodies(n) ==
    { Body(t, <<>>) : t \in NoTextBodyTags } \cup { Body("text", x) : x \in Texts(n) }

\* status codes the LLM endpoint may answer with
LlmStatusCodes == {200, 201, 429, 503}

NotCalled == [kind |-> "not_called", status_code |-> 0, body |-> Body("none", <<>>), error |-> <<>>]
PostRaised(error) == [kind |-> "exception", status_code |-> 0, body |-> Body("none", <<>>), error |-> error]
PostReturned(status_code, body) == [kind |-> "response", status_code |-> status_code, body |-> body, error |-> <<>>]

\* str(e) of what httpx raises: a timeout's text is empty
HttpxErrors == { <<>>, <<"All connection attempts failed">> }

\* what "await client.post(...)" may do; n bounds the paragraphs of a 200
\* response, m those of the others
LlmOutcomes(n, m) ==
    { PostRaised(e) : e \in HttpxErrors }
    \cup { PostReturned(200, b) : b \in Bodies(n) }
    \cup { PostReturned(c, b) : c \in LlmStatusCodes \ {200}, b \in Bodies(m) }

\* weather payloads of the vendor, by what the code reads of them
JText(x) == [tag |-> "obj", text |-> x]
JNoText(tag) == [tag |-> tag, text |-> <<>>]
JLocation == [tag |-> "obj", name |-> <<"Obzor">>, country |-> <<"Bulgaria">>]
JNoLocation(tag) == [tag |-> tag, name |-> <<>>, country |-> <<>>]
JCurrent(temp_c, condition) == [tag |-> "obj", temp_c |-> temp_c, condition |-> condition]
JNoCurrent(tag) == [tag |-> tag, temp_c |-> JMissing, condition |-> JNoText("missing")]
Payload(location, current) == [tag |-> "obj", location |-> location, current |-> current]
NoPayload == [tag |-> "none", location |-> JNoLocation("missing"), current |-> JNoCurrent("missing")]

ForecastPayloads ==
    { Payload(JLocation, JCurrent(JNum(21), JText(<<"Slanchevo">>))),
      Payload(JLocation, JCurrent(JNum(-3), JText(<<"Snyag">>))),
      Payload(JLocation, JCurrent(JMissing, JText(<<"Slanchevo">>))),
      Payload(JLocation, JCurrent(JNull, JNoText("missing"))),
      Payload(JNoLocation("missing"), JNoCurrent("missing")),
      Payload(JLocation, JNoCurrent("null")) }

\* a complete forecast payload
UsualForecast == Payload(JLocation, JCurrent(JNum(21), JText(<<"Slanchevo">>)))

HistoricalPayloads == { Payload(JLocation, JNoCurrent("missing")) }

\* --------------------------------------------------------------- state

VARIABLES
    WEATHER_API_KEY,      \* os.getenv("WEATHER_API_KEY"): "" when not set
    ANTHROPIC_API_KEY,    \* os.getenv("ANTHROPIC_API_KEY"): "" when not set
    ANTHROPIC_MODEL,      \* the model identifier sent to the LLM
    entry,                \* the operation that was invoked
    pc,                   \* the position of the invoked operation
    days,                 \* the days argument of the forecast fetch
    historical_data,      \* weather_trend's local
    forecast_data,        \* weather_trend's local
    video_analysis_text,  \* weather_trend's local
    llm,                  \* what the POST to the LLM did
    trend_analysis,       \* the dict analyze_weather_trend returned
    response,             \* what the operation answered or raised
    net,                  \* the outbound requests issued, in order
    vendor,               \* what the last GET to the weather vendor did
    stream,               \* what the GET to the video stream did, and current_time
    requests              \* the /weather-trend calls in flight together, each with its locals

vars == <<WEATHER_API_KEY, ANTHROPIC_API_KEY, ANTHROPIC_MODEL, entry, pc, days,
          historical_data, forecast_data, video_analysis_text, llm,
          trend_analysis, response, net, vendor, stream, requests>>

config == <<WEATHER_API_KEY, ANTHROPIC_API_KEY, ANTHROPIC_MODEL>>

Keys == {"", "secret"}

NoResult == [keys |-> {}, analiz |-> <<>>, vliyanie |-> <<>>, slanchev_den |-> <<>>,
             status |-> <<>>, error_details |-> <<>>]

\* responses: a JSON body (kind "json", the keys it holds in keys), a raised
\* HTTPException (kind "http_exception"), or the value a function returned
NoFields == [k \in {} |-> <<>>]
\* no calls are tracked together
NoRequests == <<>>

NoResponse == [kind |-> "none", status_code |-> 0, detail |-> <<>>, fields |-> NoFields]
HTTPException(status_code, detail) ==
    [kind |-> "http_exception", status_code |-> status_code, detail |-> detail, fields |-> NoFields]
JsonResponse(fields) ==
    [kind |-> "json", status_code |-> 200, detail |-> <<>>, fields |-> fields]
FunctionReturned == [kind |-> "returned", status_code |-> 0, detail |-> <<>>, fields |-> NoFields]

\* an outbound request
Request(to, d) == [to |-> to, days |-> d]

\* str(e) of fastapi's HTTPException (starlette: "{status_code}: {detail}")
StrHTTPException(status_code, detail) == <<ToString(status_code), ": ">> \o detail

\* ------------------------------------------------------- weather_data.py

\* what a GET to the weather vendor may do
VendorStatusCodes == {200, 400, 403}
NotFetched == [kind |-> "not_called", status_code |-> 0, invalid_json |-> FALSE, payload |-> NoPayload, error |-> <<>>]
GetRaised(error) == [kind |-> "exception", status_code |-> 0, invalid_json |-> FALSE, payload |-> NoPayload, error |-> error]
GetReturned(status_code, invalid_json, payload) ==
    [kind |-> "response", status_code |-> status_code, invalid_json |-> invalid_json, payload |-> payload, error |-> <<>>]
VendorOutcomes(payloads) ==
    { GetRaised(e) : e \in HttpxErrors }
    \cup { GetReturned(c, FALSE, NoPayload) : c \in VendorStatusCodes \ {200} }
    \cup { GetReturned(200, TRUE, NoPayload) }
    \cup { GetReturned(200, FALSE, w) : w \in payloads }

MissingWeatherKey == <<"WEATHER_API_KEY ne e predostaven">>

\* mutant: the vendor's status is not looked at, the body is returned
FetchResult_StatusIgnored(outcome, prefix, failure) ==
    IF outcome.kind = "exception"
    THEN Raised(prefix \o outcome.error)
    ELSE IF outcome.invalid_json
    THEN Raised(prefix \o <<"Expecting value: line 1 column 1 (char 0)">>)
    ELSE [raised |-> FALSE, value |-> outcome.payload, error |-> <<>>]

\* The body of a fetcher after its key check, given what the GET did: the
\* payload it returns or the HTTPException it raises.  The HTTPException
\* raised for a vendor status is raised inside the try, so "except Exception"
\* catches it and raises the 500 with its text.
FetchResult(outcome, prefix, failure) ==
    IF outcome.kind = "exception"
    THEN Raised(prefix \o outcome.error)
    ELSE IF outcome.status_code # 200
    THEN Raised(prefix \o StrHTTPException(outcome.status_code, failure))
    ELSE IF outcome.invalid_json
    THEN Raised(prefix \o <<"Expecting value: line 1 column 1 (char 0)">>)
    ELSE [raised |-> FALSE, value |-> outcome.payload, error |-> <<>>]

HistoricalPrefix == <<"Greshka pri zayavka za istoricheski danni: ">>
HistoricalFailure == <<"Neuspeshno izvlichane na istoricheski danni">>
ForecastPrefix == <<"Greshka pri zayavka za prognozni danni: ">>
ForecastFailure == <<"Neuspeshno izvlichane na prognozni danni">>

\* "if not weather_api_key: raise ValueError(...)" of both fetchers
WeatherKeyIsSet(weather_api_key) == weather_api_key # ""

\* get_historical_weather(location, WEATHER_API_KEY), called by weather_trend
GetHistoricalWeather ==
    /\ pc = "historical"
    /\ IF ~WeatherKeyIsSet(WEATHER_API_KEY)
       THEN /\ response' = HTTPException(500, HistoricalPrefix \o MissingWeatherKey)
            /\ pc' = "done"
            /\ UNCHANGED <<historical_data, net, vendor>>
       ELSE \E o \in VendorOutcomes(HistoricalPayloads) :
              LET r == FetchResult(o, HistoricalPrefix, HistoricalFailure)
              IN  /\ net' = Append(net, Request("history", 1))
                  /\ vendor' = o
                  /\ IF r.raised
                     THEN /\ response' = HTTPException(500, r.error)
                          /\ pc' = "done"
                          /\ UNCHANGED historical_data
                     ELSE /\ historical_data' = r.value
                          /\ pc' = "forecast"
                          /\ UNCHANGED response
    /\ UNCHANGED <<config, entry, days, forecast_data, video_analysis_text, llm,
                   trend_analysis, stream, requests>>

\* get_forecast_weather(location, d, WEATHER_API_KEY): on return the caller
\* goes on at next and holds returned as its answer so far
get_forecast_weather(d, next, returned) ==
    /\ days' = d
    /\ IF ~WeatherKeyIsSet(WEATHER_API_KEY)
       THEN /\ response' = HTTPException(500, ForecastPrefix \o MissingWeatherKey)
            /\ pc' = "done"
            /\ UNCHANGED <<forecast_data, net, vendor>>
       ELSE \E o \in VendorOutcomes(ForecastPayloads) :
              LET r == FetchResult(o, ForecastPrefix, ForecastFailure)
              IN  /\ net' = Append(net, Request("forecast", d))
                  /\ vendor' = o
                  /\ IF r.raised
                     THEN /\ response' = HTTPException(500, r.error)
                          /\ pc' = "done"
                          /\ UNCHANGED forecast_data
                     ELSE /\ forecast_data' = r.value
                          /\ pc' = next
                          /\ response' = returned
    /\ UNCHANGED <<config, historical_data, video_analysis_text, llm, trend_analysis, stream, requests>>

\* the days weather_trend asks for
TrendForecastDays == 2

\* forecast_data = await get_forecast_weather(location, 2, WEATHER_API_KEY)
GetForecastWeather ==
    /\ pc = "forecast"
    /\ get_forecast_weather(TrendForecastDays, "video", response)
    /\ UNCHANGED entry

\* the range backup_app.py accepts, and the days values tried
MinDays == 1
MaxDays == 10
DaysValues == (MinDays - 1)..(MaxDays + 1)

\* a direct call of get_forecast_weather with any days
CallGetForecastWeather ==
    /\ pc = "idle"
    /\ entry' = "get_forecast_weather"
    /\ \E d \in DaysValues : get_forecast_weather(d, "done", FunctionReturned)

\* ----------------------------------------------------- video_analysis.py

\* datetime.now().strftime("%H:%M")
ClockValues == {"09:30", "23:59"}

VideoPhrase == "tekushtiya kadar e zasnet v Obzor (drevniyat Heliopolis - Gradat na Slantseto) v "
VideoHealthy(current_time) == <<VideoPhrase, current_time, " ch.">>
VideoNoAccess(current_time) ==
    <<VideoPhrase, current_time, " ch., no za sazhalenie v momenta nyamame dostap do video potoka">>
VideoProbeError(current_time) ==
    <<VideoPhrase, current_time, " ch., no vaznikna problem pri analiza na video potoka">>

\* what client.get(stream_url, timeout=10.0) may do: raise (a timeout, a
\* refused connection) or answer with a status
StreamStatusCodes == {200, 206, 404}
VideoOutcomes ==
    { [kind |-> "exception", status_code |-> 0] }
    \cup { [kind |-> "response", status_code |-> c] : c \in StreamStatusCodes }

\* the GET of analyze_video_stream and the current_time taken before it
NotProbed == [kind |-> "not_called", status_code |-> 0, current_time |-> ""]
Probed(current_time, outcome) ==
    [kind |-> outcome.kind, status_code |-> outcome.status_code, current_time |-> current_time]

\* mutant: every 2xx status is taken as access to the stream
VideoDescription_Any2xx(current_time, outcome) ==
    IF outcome.kind = "exception" THEN VideoProbeError(current_time)
    ELSE IF outcome.status_code \notin 200..299 THEN VideoNoAccess(current_time)
    ELSE VideoHealthy(current_time)

\* the description analyze_video_stream returns
VideoDescription(current_time, outcome) ==
    IF outcome.kind = "exception" THEN VideoProbeError(current_time)
    ELSE IF outcome.status_code # 200 THEN VideoNoAccess(current_time)
    ELSE VideoHealthy(current_time)

\* video_analysis_text = await analyze_video_stream(video_stream_url)
AnalyzeVideoStream ==
    /\ pc = "video"
    /\ \E current_time \in ClockValues, o \in VideoOutcomes :
          /\ net' = Append(net, Request("video", 0))
          /\ stream' = Probed(current_time, o)
          /\ video_analysis_text' = VideoDescription(current_time, o)
    /\ pc' = "analyze"
    /\ UNCHANGED <<config, entry, days, historical_data, forecast_data, llm,
                   trend_analysis, response, vendor, requests>>

\* ------------------------------------------------------------- app.py

\* the paragraphs an LLM text may have for the invoked operation
ParagraphBound == IF entry = "analyze_weather_trend" THEN MaxParagraphs ELSE MaxHandlerParagraphs
ErrorParagraphBound ==
    IF entry = "analyze_weather_trend" THEN MaxErrorBodyParagraphs ELSE MaxHandlerParagraphs

\* analyze_weather_trend(historical_data, forecast_data, video_analysis_text):
\* without a key it returns before the POST; with one it issues the POST and
\* turns whatever comes of it into a dict
AnalyzeWeatherTrend ==
    /\ pc = "analyze"
    /\ IF ~KeyIsSet(ANTHROPIC_API_KEY)
       THEN /\ trend_analysis' = Preflight(forecast_data)
            /\ UNCHANGED <<llm, net>>
       ELSE \E o \in LlmOutcomes(ParagraphBound, ErrorParagraphBound) :
              /\ net' = Append(net, Request("anthropic", 0))
              /\ llm' = o
              /\ trend_analysis' = AfterDispatch(o)
    /\ pc' = "analyzed"
    /\ UNCHANGED <<config, entry, days, historical_data, forecast_data,
                   video_analysis_text, response, vendor, stream, requests>>

\* d.get(key, default) on the dict analyze_weather_trend returned
TrendGet(d, key, default) ==
    IF key \in d.keys
    THEN CASE key = "analiz" -> d.analiz
           [] key = "vliyanie" -> d.vliyanie
           [] OTHER -> d.slanchev_den
    ELSE default

Unknown == <<"Neizvestno">>

\* A chain of .get calls raises AttributeError when a section it reads is null.
\* location_info.get(...), current_info.get(...),
\* current_info.get("condition", {}).get(...)
PayloadReadable(w) ==
    /\ w.location.tag # "null"
    /\ w.current.tag # "null"
    /\ w.current.condition.tag # "null"

\* a JSON value as the response body renders it
JsonTemp(temp_c) ==
    IF temp_c.tag = "missing" THEN <<"N/A">>
    ELSE IF temp_c.tag = "null" THEN <<"null">>
    ELSE <<ToString(temp_c.num)>>

LocationName(w) == IF w.location.tag = "obj" THEN w.location.name ELSE Unknown
LocationCountry(w) == IF w.location.tag = "obj" THEN w.location.country ELSE Unknown
CurrentTemp(w) == IF w.current.tag = "obj" THEN JsonTemp(w.current.temp_c) ELSE <<"N/A">>
CurrentCondition(w) ==
    IF w.current.tag = "obj" /\ w.current.condition.tag = "obj"
    THEN w.current.condition.text ELSE Unknown

TrendResponseKeys ==
    {"mestopolozhenie", "darzhava", "tekushta_temperatura", "tekushto_sastoyanie",
     "video_analiz", "analiz_na_vremeto", "vliyanie_varhu_horata", "slanchev_den"}

\* the dict weather_trend returns
TrendResponse(w, video_text, trend) ==
    JsonResponse(
        [k \in TrendResponseKeys |->
            CASE k = "mestopolozhenie" -> LocationName(w)
              [] k = "darzhava" -> LocationCountry(w)
              [] k = "tekushta_temperatura" -> CurrentTemp(w)
              [] k = "tekushto_sastoyanie" -> CurrentCondition(w)
              [] k = "video_analiz" -> video_text
              [] k = "analiz_na_vremeto" -> TrendGet(trend, "analiz", <<"Nyama nalichen analiz">>)
              [] k = "vliyanie_varhu_horata" ->
                    TrendGet(trend, "vliyanie", <<"Nyama informatsiya za vliyanieto">>)
              [] OTHER -> TrendGet(trend, "slanchev_den", <<"Nyama informatsiya">>)])

UnexpectedPrefix == <<"Neochakvana greshka: ">>

\* a request for /weather-trend arrives
RequestWeatherTrend ==
    /\ pc = "idle"
    /\ entry' = "weather_trend"
    /\ pc' = "historical"
    /\ UNCHANGED <<config, days, historical_data, forecast_data, video_analysis_text,
                   llm, trend_analysis, response, net, vendor, stream, requests>>

\* weather_trend after analyze_weather_trend returned: the response dict, or
\* the 500 of "except Exception" when a .get is called on None
WeatherTrendRespond ==
    /\ pc = "analyzed"
    /\ entry = "weather_trend"
    /\ response' = IF PayloadReadable(forecast_data)
                   THEN TrendResponse(forecast_data, video_analysis_text, trend_analysis)
                   ELSE HTTPException(500, UnexpectedPrefix \o NoneHasNoGet)
    /\ pc' = "done"
    /\ UNCHANGED <<config, entry, days, historical_data, forecast_data,
                   video_analysis_text, llm, trend_analysis, net, vendor, stream, requests>>

\* ---------------------------------------------------------- backup_app.py

\* "if days < 1 or days > 10", negated
DaysInRange(d) == d >= MinDays /\ d <= MaxDays

BackupPrefix == <<"Greshka pri zayavka kam WeatherAPI: ">>
BackupFailure == <<"Neuspeshno izvlichane na danni za vremeto">>
DaysOutOfRange == <<"Broyat dni tryabva da bade mezhdu 1 i 10">>

\* weather_trend(location, days) of backup_app.py up to the return of
\* get_weather_data, which checks no key
BackupWeatherTrend ==
    /\ pc = "idle"
    /\ entry' = "backup_weather_trend"
    /\ \E d \in DaysValues :
          /\ days' = d
          /\ IF ~DaysInRange(d)
             THEN /\ response' = HTTPException(400, DaysOutOfRange)
                  /\ pc' = "done"
                  /\ UNCHANGED <<forecast_data, net, vendor>>
             ELSE \E o \in VendorOutcomes(ForecastPayloads) :
                    LET r == FetchResult(o, BackupPrefix, BackupFailure)
                    IN  /\ net' = Append(net, Request("forecast", d))
                        /\ vendor' = o
                        /\ IF r.raised
                           THEN /\ response' = HTTPException(500, r.error)
                                /\ pc' = "done"
                                /\ UNCHANGED forecast_data
                           ELSE /\ forecast_data' = r.value
                                /\ pc' = "summarize"
                                /\ UNCHANGED response
    /\ UNCHANGED <<config, historical_data, video_analysis_text, llm, trend_analysis, stream, requests>>

HuggingFacePrefix == <<"Greshka pri komunikatsiya s Hugging Face: ">>
HuggingFaceFailure == <<"Greshka ot Hugging Face modela">>

\* What the POST to the summarization model may do.  shape is the JSON of a
\* 200 response: invalid_json, summary ([{"summary_text": ...}]), no_summary
\* ([{}]), item_not_object (["..."]), empty_list ([]), not_list ({...}).
SummaryOutcomes ==
    { [kind |-> "exception", status_code |-> 0, shape |-> "none", error |-> e] : e \in HttpxErrors }
    \cup { [kind |-> "response", status_code |-> 503, shape |-> "none", error |-> <<>>] }
    \cup { [kind |-> "response", status_code |-> 200, shape |-> sh, error |-> <<>>] :
             sh \in {"invalid_json", "summary", "no_summary", "item_not_object",
                     "empty_list", "not_list"} }

\* get_trend_from_hugging_face: the summary it returns or the 500 it raises
get_trend_from_hugging_face(outcome) ==
    IF outcome.kind = "exception" THEN Raised(HuggingFacePrefix \o outcome.error)
    ELSE IF outcome.status_code # 200
    THEN Raised(HuggingFacePrefix \o StrHTTPException(outcome.status_code, HuggingFaceFailure))
    ELSE CASE outcome.shape = "invalid_json" ->
                Raised(HuggingFacePrefix \o <<"Expecting value: line 1 column 1 (char 0)">>)
           [] outcome.shape = "summary" -> Returned(<<"Sunny and warm.">>)
           [] outcome.shape = "no_summary" -> Returned(<<"Ne mozhahme da generirame obobshtenie.">>)
           [] outcome.shape = "item_not_object" ->
                Raised(HuggingFacePrefix \o <<"'str' object has no attribute 'get'">>)
           [] OTHER -> Returned(<<"Ne mozhahme da razpoznaem formata na otgovora ot modela.">>)

BackupResponseKeys ==
    {"location", "current_temp", "current_condition", "trend_analysis", "days_forecasted"}

\* the dict backup_app.py's weather_trend returns
BackupResponse(w, trend, d) ==
    JsonResponse(
        [k \in BackupResponseKeys |->
            CASE k = "location" -> LocationName(w)
              [] k = "current_temp" -> CurrentTemp(w)
              [] k = "current_condition" -> CurrentCondition(w)
              [] k = "trend_analysis" -> trend
              [] OTHER -> <<ToString(d)>>])

\* weather_trend of backup_app.py from format_weather_data (which never
\* raises) to its answer
BackupSummarize ==
    /\ pc = "summarize"
    /\ \E o \in SummaryOutcomes :
          LET trend == get_trend_from_hugging_face(o)
          IN  /\ net' = Append(net, Request("huggingface", 0))
              /\ response' =
                    IF trend.raised THEN HTTPException(500, trend.error)
                    ELSE IF ~PayloadReadable(forecast_data)
                    THEN HTTPException(500, UnexpectedPrefix \o NoneHasNoGet)
                    ELSE BackupResponse(forecast_data, trend.value, days)
    /\ pc' = "done"
    /\ UNCHANGED <<config, entry, days, historical_data, forecast_data,
                   video_analysis_text, llm, trend_analysis, vendor, stream, requests>>

\* ------------------------------------------------------- specifications

\* the process after startup: the keys are what the environment holds
Init ==
    /\ WEATHER_API_KEY \in Keys
    /\ ANTHROPIC_API_KEY \in Keys
    /\ ANTHROPIC_MODEL = "claude-3-5-sonnet-20240620"
    /\ entry = "none"
    /\ pc = "idle"
    /\ days = 0
    /\ historical_data = NoPayload
    /\ forecast_data = NoPayload
    /\ video_analysis_text = <<>>
    /\ llm = NotCalled
    /\ trend_analysis = NoResult
    /\ response = NoResponse
    /\ net = <<>>
    /\ vendor = NotFetched
    /\ stream = NotProbed
    /\ requests = NoRequests

Next ==
    \/ RequestWeatherTrend
    \/ GetHistoricalWeather
    \/ GetForecastWeather
    \/ AnalyzeVideoStream
    \/ AnalyzeWeatherTrend
    \/ WeatherTrendRespond
    \/ CallGetForecastWeather
    \/ BackupWeatherTrend
    \/ BackupSummarize

Spec == Init /\ [][Next]_vars

\* analyze_weather_trend called on its own.  With the key set forecast_data
\* goes only into the prompt text (format_forecast_data never raises), so the
\* payload is varied where it is read: in the branch without a key.
InitAnalyze ==
    /\ WEATHER_API_KEY = "secret"
    /\ ANTHROPIC_API_KEY \in Keys
    /\ ANTHROPIC_MODEL = "claude-3-5-sonnet-20240620"
    /\ entry = "analyze_weather_trend"
    /\ pc = "analyze"
    /\ days = 0
    /\ historical_data \in HistoricalPayloads
    /\ forecast_data \in (IF KeyIsSet(ANTHROPIC_API_KEY) THEN {UsualForecast}
                           ELSE ForecastPayloads)
    /\ video_analysis_text \in { VideoHealthy("09:30") }
    /\ llm = NotCalled
    /\ trend_analysis = NoResult
    /\ response = NoResponse
    /\ net = <<>>
    /\ vendor = NotFetched
    /\ stream = NotProbed
    /\ requests = NoRequests

NextAnalyze == AnalyzeWeatherTrend

SpecAnalyze == InitAnalyze /\ [][NextAnalyze]_vars

\* ------------------------------------------- /weather-trend calls together

\* the calls of weather_trend that are in flight together
MaxRequests == 2
Requests == 1..MaxRequests

\* what the upstreams answered to one call
NoUpstream == [history |-> NotFetched, forecast |-> NotFetched, video |-> NotProbed, llm |-> NotCalled]

\* the frame of one weather_trend call: its position, its locals, its answer,
\* and what the upstreams answered to it
IdleCall ==
    [pc |-> "idle", historical_data |-> NoPayload, forecast_data |-> NoPayload,
     video_analysis_text |-> <<>>, trend_analysis |-> NoResult, response |-> NoResponse,
     upstream |-> NoUpstream]

\* the answers of the upstreams tried with calls in flight together
TogetherVendorOutcomes(payloads) ==
    { GetRaised(<<"All connection attempts failed">>) }
    \cup { GetReturned(200, FALSE, w) : w \in payloads }
TogetherForecastPayloads ==
    { Payload(JLocation, JCurrent(JNum(21), JText(<<"Slanchevo">>))),
      Payload(JLocation, JNoCurrent("null")) }
TogetherVideoOutcomes ==
    { Probed("09:30", [kind |-> "response", status_code |-> 200]),
      Probed("23:59", [kind |-> "exception", status_code |-> 0]) }
TogetherLlmOutcomes ==
    { PostReturned(503, Body("invalid_json", <<>>)),
      PostReturned(200, Body("text", <<"s","l","a","n","c","h","e","v">>)) }

\* mutant: forecast_data is a module global, so a call reads what another
\* call has stored there
HandlerForecast_ModuleGlobal(r) ==
    LET others == {q \in Requests \ {r} : requests[q].forecast_data # NoPayload}
    IN  IF others = {} THEN requests[r].forecast_data
        ELSE requests[CHOOSE q \in others : TRUE].forecast_data

\* forecast_data as call r reads it: the local of its own frame
HandlerForecast(r) == requests[r].forecast_data

\* call r moves on with the frame f; the other frames stay as they are
Resume(r, f) ==
    /\ requests' = [requests EXCEPT ![r] = f]
    /\ UNCHANGED <<config, entry, pc, days, historical_data, forecast_data,
                   video_analysis_text, llm, trend_analysis, response, net, vendor, stream>>

\* a request for /weather-trend arrives while others are in flight
TaskArrives(r) ==
    /\ requests[r].pc = "idle"
    /\ Resume(r, [requests[r] EXCEPT !.pc = "historical"])

\* call r: historical_data = await get_historical_weather(location, WEATHER_API_KEY)
TaskGetHistoricalWeather(r) ==
    /\ requests[r].pc = "historical"
    /\ IF ~WeatherKeyIsSet(WEATHER_API_KEY)
       THEN Resume(r, [requests[r] EXCEPT
                         !.response = HTTPException(500, HistoricalPrefix \o MissingWeatherKey),
                         !.pc = "done"])
       ELSE \E o \in TogetherVendorOutcomes(HistoricalPayloads) :
              LET got == FetchResult(o, HistoricalPrefix, HistoricalFailure)
              IN  IF got.raised
                  THEN Resume(r, [requests[r] EXCEPT !.upstream.history = o,
                                    !.response = HTTPException(500, got.error),
                                    !.pc = "done"])
                  ELSE Resume(r, [requests[r] EXCEPT !.upstream.history = o,
                                    !.historical_data = got.value,
                                    !.pc = "forecast"])

\* call r: forecast_data = await get_forecast_weather(location, 2, WEATHER_API_KEY)
TaskGetForecastWeather(r) ==
    /\ requests[r].pc = "forecast"
    /\ IF ~WeatherKeyIsSet(WEATHER_API_KEY)
       THEN Resume(r, [requests[r] EXCEPT
                         !.response = HTTPException(500, ForecastPrefix \o MissingWeatherKey),
                         !.pc = "done"])
       ELSE \E o \in TogetherVendorOutcomes(TogetherForecastPayloads) :
              LET got == FetchResult(o, ForecastPrefix, ForecastFailure)
              IN  IF got.raised
                  THEN Resume(r, [requests[r] EXCEPT !.upstream.forecast = o,
                                    !.response = HTTPException(500, got.error),
                                    !.pc = "done"])
                  ELSE Resume(r, [requests[r] EXCEPT !.upstream.forecast = o,
                                    !.forecast_data = got.value,
                                    !.pc = "video"])

\* call r: video_analysis_text = await analyze_video_stream(video_stream_url)
TaskAnalyzeVideoStream(r) ==
    /\ requests[r].pc = "video"
    /\ \E o \in TogetherVideoOutcomes :
          Resume(r, [requests[r] EXCEPT !.upstream.video = o,
                       !.video_analysis_text = VideoDescription(o.current_time, o),
                       !.pc = "analyze"])

\* call r: trend_analysis = await analyze_weather_trend(historical_data,
\* forecast_data, video_analysis_text)
TaskAnalyzeWeatherTrend(r) ==
    /\ requests[r].pc = "analyze"
    /\ IF ~KeyIsSet(ANTHROPIC_API_KEY)
       THEN Resume(r, [requests[r] EXCEPT !.trend_analysis = Preflight(HandlerForecast(r)),
                         !.pc = "analyzed"])
       ELSE \E o \in TogetherLlmOutcomes :
              Resume(r, [requests[r] EXCEPT !.upstream.llm = o,
                           !.trend_analysis = AfterDispatch(o),
                           !.pc = "analyzed"])

\* call r: the response dict, or the 500 of "except Exception"
TaskRespond(r) ==
    /\ requests[r].pc = "analyzed"
    /\ Resume(r, [requests[r] EXCEPT
                    !.response =
                        IF PayloadReadable(HandlerForecast(r))
                        THEN TrendResponse(HandlerForecast(r), requests[r].video_analysis_text,
                                           requests[r].trend_analysis)
                        ELSE HTTPException(500, UnexpectedPrefix \o NoneHasNoGet),
                    !.pc = "done"])

\* the process after startup, with every call still to arrive
InitTogether ==
    /\ WEATHER_API_KEY \in Keys
    /\ ANTHROPIC_API_KEY \in Keys
    /\ ANTHROPIC_MODEL = "claude-3-5-sonnet-20240620"
    /\ entry = "weather_trend"
    /\ pc = "idle"
    /\ days = 0
    /\ historical_data = NoPayload
    /\ forecast_data = NoPayload
    /\ video_analysis_text = <<>>
    /\ llm = NotCalled
    /\ trend_analysis = NoResult
    /\ response = NoResponse
    /\ net = <<>>
    /\ vendor = NotFetched
    /\ stream = NotProbed
    /\ requests = [r \in Requests |-> IdleCall]

\* the event loop resumes any one call at its await
NextTogether ==
    \/ \E r \in Requests : TaskArrives(r)
    \/ \E r \in Requests : TaskGetHistoricalWeather(r)
    \/ \E r \in Requests : TaskGetForecastWeather(r)
    \/ \E r \in Requests : TaskAnalyzeVideoStream(r)
    \/ \E r \in Requests : TaskAnalyzeWeatherTrend(r)
    \/ \E r \in Requests : TaskRespond(r)

SpecTogether == InitTogether /\ [][NextTogether]_vars

\* What weather_trend answers when it runs alone and the upstreams answer u:
\* the handler's stages one after the other
RunAlone(u) ==
    IF ~WeatherKeyIsSet(WEATHER_API_KEY)
    THEN HTTPException(500, HistoricalPrefix \o MissingWeatherKey)
    ELSE LET h == FetchResult(u.history, HistoricalPrefix, HistoricalFailure)
             f == FetchResult(u.forecast, ForecastPrefix, ForecastFailure)
             v == VideoDescription(u.video.current_time, u.video)
         IN  IF h.raised THEN HTTPException(500, h.error)
             ELSE IF f.raised THEN HTTPException(500, f.error)
             ELSE IF ~PayloadReadable(f.value)
             THEN HTTPException(500, UnexpectedPrefix \o NoneHasNoGet)
             ELSE TrendResponse(f.value, v,
                                IF KeyIsSet(ANTHROPIC_API_KEY) THEN AfterDispatch(u.llm)
                                ELSE Preflight(f.value))

\* ================================================================ claims

\* a str holds the fragment
Embeds(s, fragment) == \E i \in 1..Len(s) : s[i] = fragment

\* a non-empty str: at least one fragment, none of them empty
NonEmptyStr(s) == s # <<>> /\ \A i \in 1..Len(s) : s[i] # ""

Analyzed == pc = "analyzed"
Responded == llm.kind = "response"
\* the generated text was a str and was parsed (an absent "text" is "")
TextParsed ==
    /\ Analyzed /\ Responded /\ llm.status_code = 200
    /\ llm.body.tag \in {"text", "text_missing"}
LlmParagraphs == Paragraphs(llm.body.text)

AnalysisMatch(p) == LET p_lower == Lower(p) IN ContainsAny(p_lower, AnalysisKeywords)
InfluenceMatch(p) == LET p_lower == Lower(p) IN ContainsAny(p_lower, InfluenceKeywords)
SunnyDayMatch(p) == LET p_lower == Lower(p) IN ContainsAny(p_lower, SunnyDayKeywords)
NoMatch(p) == ~AnalysisMatch(p) /\ ~InfluenceMatch(p) /\ ~SunnyDayMatch(p)

IsDegraded(d) ==
    /\ ErrorKeys \subseteq d.keys
    /\ d.status = <<"error">>
    /\ NonEmptyStr(d.error_details)
IsSystemError(d) ==
    /\ IsDegraded(d)
    /\ d.error_details[1] = SystemErrorPrefix
    /\ Embeds(d.analiz, SystemErrorPrefix)
    /\ d.vliyanie = SystemErrorResult(<<>>).vliyanie
    /\ d.slanchev_den = SystemErrorResult(<<>>).slanchev_den
HasNoErrorFields(d) ==
    d.keys = NarrativeKeys /\ d.status = <<>> /\ d.error_details = <<>>

\* C1: whatever analyze_weather_trend went through (no key, any status, any
\* body, an exception of the call or of the parse, any text), the dict it
\* returns holds the three narrative fields and each is a non-empty str.
C1_FieldsAlwaysPopulated ==
    Analyzed =>
        /\ NarrativeKeys \subseteq trend_analysis.keys
        /\ NonEmptyStr(trend_analysis.analiz)
        /\ NonEmptyStr(trend_analysis.vliyanie)
        /\ NonEmptyStr(trend_analysis.slanchev_den)

\* C1 witness: a 200 response whose text has one paragraph was analyzed
C1_Witness == TextParsed /\ Len(LlmParagraphs) = 1

\* an exception raised by the POST or on the way to the generated text
RaisedBeforeParse ==
    /\ Responded => llm.status_code = 200 /\ GeneratedText(llm.body).raised
    /\ llm.kind # "not_called"
\* an exception raised by the split and the scan: the text is not a str
RaisedInParse == Responded /\ llm.status_code = 200 /\ llm.body.tag = "text_null"

\* C2 as claimed: every exception raised in the Dispatch or the Parse step,
\* one raised while splitting and classifying included, ends in a Degraded
\* result with status "error", an error detail and the system-error narrative.
C2_EveryExceptionDegrades ==
    (Analyzed /\ (RaisedBeforeParse \/ RaisedInParse)) => IsSystemError(trend_analysis)

\* C2 amended: an exception raised by the POST or while reading the response
\* up to the generated text ends in the Degraded system-error result; one
\* raised while splitting and classifying ends in the three fixed sentences of
\* the inner handler, with no error status and no error detail; in both cases
\* a dict is returned.
C2_InnerHandlerKeepsSuccessShape ==
    Analyzed =>
        /\ trend_analysis # NoResult
        /\ RaisedBeforeParse => IsSystemError(trend_analysis)
        /\ RaisedInParse =>
              /\ HasNoErrorFields(trend_analysis)
              /\ trend_analysis.analiz = ParseErrorSections.analysis
              /\ trend_analysis.vliyanie = ParseErrorSections.influence
              /\ trend_analysis.slanchev_den = ParseErrorSections.sunny_day

\* C2 witness: a 200 response whose text is null was analyzed
C2_Witness == Analyzed /\ RaisedInParse

\* the temperature text C3 expects in the analysis field
ExpectedTempTexts(w) ==
    IF w.current.tag = "obj" /\ w.current.temp_c.tag = "num"
    THEN { ToString(w.current.temp_c.num) }
    ELSE IF w.current.tag = "obj" /\ w.current.temp_c.tag = "null"
    THEN { "None", "N/A" }
    ELSE { "N/A" }

\* C3: without the LLM key, for every forecast payload (the current section
\* null included), the analyzer returns without a network call, with status
\* "error", the missing-key error detail, and an analysis that embeds the
\* payload's current temperature or "N/A".
C3_MissingKeyResult ==
    (Analyzed /\ ~KeyIsSet(ANTHROPIC_API_KEY)) =>
        /\ \A i \in 1..Len(net) : net[i].to # "anthropic"
        /\ trend_analysis.status = <<"error">>
        /\ trend_analysis.error_details = MissingKeyDetails
        /\ \E t \in ExpectedTempTexts(forecast_data) : Embeds(trend_analysis.analiz, t)

\* C4: a non-2xx status s of the LLM endpoint ends in a Degraded result whose
\* error detail holds s; the result is the one fixed by s alone, so nothing
\* of the response body is parsed into it.
C4_NonSuccessStatusDegrades ==
    (Analyzed /\ Responded /\ llm.status_code \notin 200..299) =>
        /\ IsDegraded(trend_analysis)
        /\ Embeds(trend_analysis.error_details, ToString(llm.status_code))
        /\ ~Embeds(trend_analysis.error_details, SystemErrorPrefix)
        /\ trend_analysis = UpstreamFailureResult(llm.status_code)

\* C4 witness: a 503 whose body holds a well-formed text was analyzed
C4_Witness ==
    /\ Analyzed /\ Responded /\ llm.status_code = 503
    /\ llm.body.tag = "text" /\ Len(LlmParagraphs) = 1

\* a body without a generated text segment
ContentAbsent == llm.body.tag \in {"content_missing", "content_empty", "content_null"}
NoTextSegment == ContentAbsent \/ llm.body.tag = "text_missing"

\* C5 as claimed: every 2xx response without a generated text segment ends in
\* the system-error Degraded result that embeds the error text, never in a
\* success with default sentences.
C5_NoTextAlwaysDegrades ==
    (Analyzed /\ Responded /\ llm.status_code \in 200..299 /\ NoTextSegment) =>
        /\ IsSystemError(trend_analysis)
        /\ \E i \in 1..Len(EmptyResponseError) :
              Embeds(trend_analysis.error_details, EmptyResponseError[i])

\* C5 amended: a response with status 200 whose content list is missing, null
\* or empty ends in the system-error Degraded result whose detail embeds
\* "Prazen otgovor ot AI modela"; a 200 response whose first content block
\* has no text ends in a success with the three default sentences; a 2xx
\* status other than 200 ends in the upstream-failure Degraded result.
C5_EmptyContentDegrades ==
    (Analyzed /\ Responded /\ llm.status_code \in 200..299) =>
        /\ (llm.status_code = 200 /\ ContentAbsent) =>
              /\ IsSystemError(trend_analysis)
              /\ trend_analysis.error_details = <<SystemErrorPrefix>> \o EmptyResponseError
              /\ Embeds(trend_analysis.analiz, EmptyResponseError[1])
        /\ (llm.status_code = 200 /\ llm.body.tag = "text_missing") =>
              /\ HasNoErrorFields(trend_analysis)
              /\ trend_analysis.analiz = DefaultAnalysis
              /\ trend_analysis.vliyanie = DefaultInfluence
              /\ trend_analysis.slanchev_den = DefaultSunnyDay
        /\ llm.status_code # 200 =>
              /\ IsDegraded(trend_analysis)
              /\ Embeds(trend_analysis.error_details, ToString(llm.status_code))
              /\ ~Embeds(trend_analysis.error_details, SystemErrorPrefix)

\* C5 witness: a 200 response with an empty content list was analyzed
C5_Witness ==
    Analyzed /\ Responded /\ llm.status_code = 200 /\ llm.body.tag = "content_empty"

Markers == { <<"1",".">>, <<"2",".">>, <<"3",".">>, <<"1",")">>, <<"2",")">>, <<"3",")">> }
HasMarker(p) == \E m \in Markers : Contains(p, m)

\* the buckets whose keywords a paragraph holds
BucketsOf(p) ==
    {b \in {"analysis", "influence", "sunny_day"} :
        \/ b = "analysis" /\ AnalysisMatch(p)
        \/ b = "influence" /\ InfluenceMatch(p)
        \/ b = "sunny_day" /\ SunnyDayMatch(p)}

\* the returned field of a bucket
FieldOf(b) ==
    CASE b = "analysis" -> trend_analysis.analiz
      [] b = "influence" -> trend_analysis.vliyanie
      [] OTHER -> trend_analysis.slanchev_den

\* three distinct paragraphs, each with the keywords of exactly one bucket,
\* each bucket matched by exactly one of them
Unambiguous(ps) ==
    /\ Len(ps) = 3
    /\ \A i, j \in 1..3 : i # j => ps[i] # ps[j]
    /\ \A i \in 1..3 : Cardinality(BucketsOf(ps[i])) = 1
    /\ \A i, j \in 1..3 : i # j => BucketsOf(ps[i]) # BucketsOf(ps[j])

\* C6 as claimed: three distinct paragraphs, in any order, each matching one
\* bucket and each bucket matched once, are returned exactly, each in the
\* field of its bucket, with no error status and no error detail.
C6_ExactParagraphsReturned ==
    (TextParsed /\ Unambiguous(LlmParagraphs)) =>
        /\ HasNoErrorFields(trend_analysis)
        /\ \A i \in 1..3 : \A b \in BucketsOf(LlmParagraphs[i]) :
              FieldOf(b) = LlmParagraphs[i]

\* C6 amended: each of the three paragraphs is returned in the field of its
\* bucket after the marker removal of the scan (every occurrence of "1.",
\* "2.", "3.", "1)", "2)", "3)" deleted, then stripped), so exactly when it
\* holds none of these; the result has no error status and no error detail.
C6_ParagraphsReturnedWithoutMarkers ==
    (TextParsed /\ Unambiguous(LlmParagraphs)) =>
        /\ HasNoErrorFields(trend_analysis)
        /\ \A i \in 1..3 : \A b \in BucketsOf(LlmParagraphs[i]) :
              /\ FieldOf(b) = RemoveMarkers(LlmParagraphs[i])
              /\ ~HasMarker(LlmParagraphs[i]) => FieldOf(b) = LlmParagraphs[i]

\* C6 witness: three unambiguous paragraphs were analyzed, the sunny-day one
\* first and the analysis one, which has a marker and a capital, last
C6_Witness ==
    /\ TextParsed /\ Unambiguous(LlmParagraphs)
    /\ SunnyDayMatch(LlmParagraphs[1])
    /\ AnalysisMatch(LlmParagraphs[3]) /\ HasMarker(LlmParagraphs[3])
    /\ LlmParagraphs[3] # Lower(LlmParagraphs[3])

\* the buckets after the keyword scan of the LLM's paragraphs
AfterScan == KeywordScan(LlmParagraphs, Len(LlmParagraphs))

\* C7: a bucket still empty after the keyword scan is filled from the
\* original paragraph list by its fixed index when that index exists, also
\* when the scan gave that paragraph to another bucket; with no keyword in
\* any paragraph, paragraphs 0, 1, 2 fill analysis, influence and sunny-day.
C7_PositionalFallbackByIndex ==
    TextParsed =>
        /\ (AfterScan.analysis = <<>> /\ Len(LlmParagraphs) > 0) =>
              trend_analysis.analiz = LlmParagraphs[1]
        /\ (AfterScan.influence = <<>> /\ Len(LlmParagraphs) > 1) =>
              trend_analysis.vliyanie = LlmParagraphs[2]
        /\ (AfterScan.sunny_day = <<>> /\ Len(LlmParagraphs) > 2) =>
              trend_analysis.slanchev_den = LlmParagraphs[3]
        /\ (\A i \in 1..Len(LlmParagraphs) : NoMatch(LlmParagraphs[i])) =>
              /\ Len(LlmParagraphs) > 0 => trend_analysis.analiz = LlmParagraphs[1]
              /\ Len(LlmParagraphs) > 1 => trend_analysis.vliyanie = LlmParagraphs[2]
              /\ Len(LlmParagraphs) > 2 => trend_analysis.slanchev_den = LlmParagraphs[3]

\* C7 witness: the second paragraph was given to analysis by its keyword and
\* to influence by its position
C7_Witness ==
    /\ TextParsed /\ Len(LlmParagraphs) > 1
    /\ AnalysisMatch(LlmParagraphs[2]) /\ ~AnalysisMatch(LlmParagraphs[1])
    /\ AfterScan.influence = <<>>
    /\ trend_analysis.analiz = LlmParagraphs[2]
    /\ trend_analysis.vliyanie = LlmParagraphs[2]

\* C8: with fewer than three paragraphs and no keyword in any of them, a field
\* without a paragraph at its index gets the default sentence of its own
\* bucket, never an empty str, and the result has no error status.
C8_DefaultsFillMissingFields ==
    (/\ TextParsed /\ Len(LlmParagraphs) < 3
     /\ \A i \in 1..Len(LlmParagraphs) : NoMatch(LlmParagraphs[i])) =>
        /\ HasNoErrorFields(trend_analysis)
        /\ trend_analysis.analiz =
              IF Len(LlmParagraphs) > 0 THEN LlmParagraphs[1] ELSE DefaultAnalysis
        /\ trend_analysis.vliyanie =
              IF Len(LlmParagraphs) > 1 THEN LlmParagraphs[2] ELSE DefaultInfluence
        /\ trend_analysis.slanchev_den = DefaultSunnyDay
        /\ NonEmptyStr(trend_analysis.analiz)
        /\ NonEmptyStr(trend_analysis.vliyanie)
        /\ NonEmptyStr(trend_analysis.slanchev_den)

\* C8 witness: one paragraph without a keyword was analyzed
C8_Witness ==
    TextParsed /\ Len(LlmParagraphs) = 1 /\ NoMatch(LlmParagraphs[1])

ForecastRequests == {i \in 1..Len(net) : net[i].to = "forecast"}

\* C9: a forecast fetch with days outside [1,10] is rejected as a client input
\* error before any request to the weather vendor; with days = 1 or 10 the
\* request is issued.  (get_forecast_weather is taken with the weather key
\* set, since without it no request is issued for any days.)
C9_DaysRangeEnforced ==
    (/\ pc # "idle"
     /\ \/ entry = "backup_weather_trend"
        \/ entry = "get_forecast_weather" /\ WeatherKeyIsSet(WEATHER_API_KEY)) =>
        /\ ~DaysInRange(days) =>
              /\ ForecastRequests = {}
              /\ response.kind = "http_exception"
              /\ response.status_code \in 400..499
        /\ days \in {MinDays, MaxDays} =>
              \E i \in ForecastRequests : net[i].days = days

\* weather_trend answered after both fetches succeeded and the analyzer ran
TrendAnswered == entry = "weather_trend" /\ pc = "done" /\ trend_analysis # NoResult

SuccessResponseFromAnalyzer ==
    /\ response.kind = "json"
    /\ response.status_code = 200
    /\ DOMAIN response.fields = TrendResponseKeys
    /\ response.fields["analiz_na_vremeto"] = trend_analysis.analiz
    /\ response.fields["vliyanie_varhu_horata"] = trend_analysis.vliyanie
    /\ response.fields["slanchev_den"] = trend_analysis.slanchev_den
    /\ NonEmptyStr(response.fields["analiz_na_vremeto"])
    /\ NonEmptyStr(response.fields["vliyanie_varhu_horata"])
    /\ NonEmptyStr(response.fields["slanchev_den"])

\* C10: once both weather fetches have succeeded, whatever the LLM stage did,
\* /weather-trend answers with the success response: the eight documented
\* fields, the three narrative ones non-null and taken from the analyzer.
C10_LlmStageNeverFailsRequest == TrendAnswered => SuccessResponseFromAnalyzer

\* What does hold of the handler: the success response is given whenever no
\* section the handler reads of the forecast payload is null.
TrendAnsweredForReadablePayload ==
    (TrendAnswered /\ PayloadReadable(forecast_data)) => SuccessResponseFromAnalyzer

\* the video probe of the request has returned
StreamProbed == stream.kind # "not_called"

\* the three descriptions analyze_video_stream can return for a current_time
FixedDescriptions(current_time) ==
    {VideoHealthy(current_time), VideoNoAccess(current_time), VideoProbeError(current_time)}

\* the probe handed a description of the three to its caller, which goes on
\* to the analysis without an error, and the description holds current_time
ProbeReturnedDescription ==
    /\ pc \in {"analyze", "analyzed", "done"}
    /\ pc = "analyze" => response = NoResponse
    /\ video_analysis_text \in FixedDescriptions(stream.current_time)
    /\ Embeds(video_analysis_text, stream.current_time)

\* C11 as claimed: analyze_video_stream never raises and returns one of the
\* three descriptions with the timestamp: the healthy text for a success
\* (2xx) status, the no-access text for a non-success status, the
\* probe-error text when the request raises or times out.
C11_SuccessStatusGivesHealthyText ==
    StreamProbed =>
        /\ ProbeReturnedDescription
        /\ (stream.kind = "response" /\ stream.status_code \in 200..299) =>
              video_analysis_text = VideoHealthy(stream.current_time)
        /\ (stream.kind = "response" /\ stream.status_code \notin 200..299) =>
              video_analysis_text = VideoNoAccess(stream.current_time)
        /\ stream.kind = "exception" =>
              video_analysis_text = VideoProbeError(stream.current_time)

\* C11 amended: analyze_video_stream never raises and returns one of the
\* three descriptions with the timestamp: the healthy text only for status
\* 200, the no-access text for every other status (a 2xx such as 206
\* included), the probe-error text when the request raises or times out.
C11_OnlyStatus200GivesHealthyText ==
    StreamProbed =>
        /\ ProbeReturnedDescription
        /\ (stream.kind = "response" /\ stream.status_code = 200) =>
              video_analysis_text = VideoHealthy(stream.current_time)
        /\ (stream.kind = "response" /\ stream.status_code # 200) =>
              video_analysis_text = VideoNoAccess(stream.current_time)
        /\ stream.kind = "exception" =>
              video_analysis_text = VideoProbeError(stream.current_time)

\* C11 witness: the stream answered 206 at 23:59 and the caller holds the
\* no-access text
C11_Witness ==
    /\ StreamProbed /\ pc = "analyze"
    /\ stream.kind = "response" /\ stream.status_code = 206
    /\ video_analysis_text = VideoNoAccess("23:59")

\* what the upstreams answered to the one call of Spec, read from its state:
\* the forecast fetch is reached only with the history payload returned
HandlerUpstream ==
    [history  |-> IF Len(net) >= 2 THEN GetReturned(200, FALSE, historical_data) ELSE vendor,
     forecast |-> IF Len(net) >= 2 THEN vendor ELSE NotFetched,
     video    |-> stream,
     llm      |-> llm]

\* RunAlone is the answer of the handler of Spec, where one call runs alone
RunAloneIsTheHandler ==
    (entry = "weather_trend" /\ pc = "done") => response = RunAlone(HandlerUpstream)

\* every answered call answered what it would answer alone with its upstreams
Isolated ==
    \A r \in Requests :
        requests[r].pc = "done" => requests[r].response = RunAlone(requests[r].upstream)

\* a step changes the frame of one call only
OneCallSteps ==
    \A r \in Requests :
        requests'[r] # requests[r] => \A q \in Requests \ {r} : requests'[q] = requests[q]

\* C12: under any interleaving of /weather-trend calls, each call's response
\* is the one it would produce alone with the same upstream answers, a step
\* of one call changes no other call's state, and the keys and the model
\* identifier are never modified after startup.
C12_CallsIsolated ==
    /\ []Isolated
    /\ [][OneCallSteps /\ config' = config]_vars

\* C12 witness: call 1 has answered from its own forecast payload while
\* call 2, which holds another payload, is still ahead of its analysis
C12_Witness ==
    /\ requests # NoRequests
    /\ requests[1].pc = "done" /\ requests[1].response.kind = "json"
    /\ requests[2].pc = "analyze"
    /\ requests[2].forecast_data # requests[1].forecast_data
    /\ requests[2].video_analysis_text # requests[1].video_analysis_text

BucketNames == {"analysis", "influence", "sunny_day"}

\* the content of a bucket of the scan
Bucket(acc, b) ==
    CASE b = "analysis" -> acc.analysis
      [] b = "influence" -> acc.influence
      [] OTHER -> acc.sunny_day

\* the buckets each paragraph of ps matches, by index
ParagraphBuckets(ps) == [i \in 1..Len(ps) |-> BucketsOf(ps[i])]

\* the paragraphs, by index, that hold a keyword of the bucket
Matching(matches, b) == {i \in DOMAIN matches : b \in matches[i]}

\* the first of a set of indexes, 0 for none
FirstOf(S) == IF S = {} THEN 0 ELSE CHOOSE i \in S : \A j \in S : i <= j

\* what the scan stores of the paragraph at an index, nothing for index 0
Stored(ps, i) == IF i = 0 THEN <<>> ELSE RemoveMarkers(ps[i])

\* no other paragraph is stored as the same text
StoredOnce(ps, i) == \A j \in 1..Len(ps) : j # i => Stored(ps, j) # Stored(ps, i)

\* the buckets after each paragraph of the scan: Scans(ps)[i] are the buckets
\* when the scan comes to paragraph i + 1
Scans(ps) == [n \in 0..Len(ps) |-> KeywordScan(ps, n)]

\* C13 as claimed: after the scan every bucket some paragraph matches holds
\* the first paragraph that matches it, and a later paragraph that matches
\* an already-filled bucket is in no bucket at all.
C13_LaterMatchesIgnored ==
    TextParsed =>
        LET ps == LlmParagraphs
            matches == ParagraphBuckets(ps)
            scans == Scans(ps)
            after == scans[Len(ps)]
        IN  /\ \A b \in BucketNames :
                  Matching(matches, b) # {} =>
                      Bucket(after, b) = Stored(ps, FirstOf(Matching(matches, b)))
            /\ \A i \in 1..Len(ps) :
                  (/\ StoredOnce(ps, i)
                   /\ \E b \in matches[i] : Bucket(scans[i - 1], b) # <<>>)
                  => \A c \in BucketNames : Bucket(after, c) # Stored(ps, i)

\* the paragraph each bucket takes: the first that matches it and was not
\* taken by a bucket tested before it
AnalysisIndex(matches) == FirstOf(Matching(matches, "analysis"))
InfluenceIndex(matches, a) == FirstOf(Matching(matches, "influence") \ {a})
SunnyDayIndex(matches, a, f) == FirstOf(Matching(matches, "sunny_day") \ {a, f})

\* C13 amended: the scan tests the buckets in the order analysis, influence,
\* sunny-day and gives a paragraph to the first of them that is still empty
\* and whose keyword the paragraph holds. So each bucket holds the first
\* paragraph that matches it and was not taken by a bucket tested before it,
\* a filled bucket is never overwritten, and a paragraph that matches a
\* filled bucket is still placed in a later bucket that is empty and that it
\* matches; a taken bucket is returned as the field of the result.
C13_FirstUntakenMatchPerBucket ==
    TextParsed =>
        LET ps == LlmParagraphs
            scans == Scans(ps)
            after == scans[Len(ps)]
            matches == ParagraphBuckets(ps)
            a == AnalysisIndex(matches)
            f == InfluenceIndex(matches, a)
            d == SunnyDayIndex(matches, a, f)
        IN  /\ after.analysis = Stored(ps, a)
            /\ after.influence = Stored(ps, f)
            /\ after.sunny_day = Stored(ps, d)
            /\ \A i \in 1..Len(ps) : \A b \in BucketNames :
                  Bucket(scans[i - 1], b) # <<>> => Bucket(after, b) = Bucket(scans[i - 1], b)
            /\ a # 0 => trend_analysis.analiz = Stored(ps, a)
            /\ f # 0 => trend_analysis.vliyanie = Stored(ps, f)
            /\ d # 0 => trend_analysis.slanchev_den = Stored(ps, d)

\* C13 witness: the first paragraph filled analysis; the second matches
\* analysis and influence and was placed in influence; the third matches
\* influence and sunny-day and was placed in sunny-day
C13_Witness ==
    /\ TextParsed /\ Len(LlmParagraphs) = 3
    /\ BucketsOf(LlmParagraphs[1]) = {"analysis"}
    /\ BucketsOf(LlmParagraphs[2]) = {"analysis", "influence"}
    /\ BucketsOf(LlmParagraphs[3]) = {"influence", "sunny_day"}
    /\ trend_analysis.vliyanie = LlmParagraphs[2]
    /\ trend_analysis.slanchev_den = LlmParagraphs[3]

\* a paragraph without the enumeration marker at its start, if it has one
StripLeadingMarker(p) ==
    IF \E m \in Markers : StartsWith(p, m) THEN Strip(SubSeq(p, 3, Len(p))) ELSE p

\* the paragraph a field is filled from: the one its bucket took in the scan,
\* else the one at the bucket's position, 0 when there is neither
SourceIndex(ps, taken, position) ==
    IF taken # 0 THEN taken ELSE IF Len(ps) >= position THEN position ELSE 0

\* C14: a field filled from a paragraph, by keyword or by position, is that
\* paragraph with its leading enumeration marker removed and nothing else
\* changed: the same characters inside the paragraph, as in 21.5, stay.
C14_OnlyLeadingMarkerRemoved ==
    TextParsed =>
        LET ps == LlmParagraphs
            matches == ParagraphBuckets(ps)
            a == AnalysisIndex(matches)
            f == InfluenceIndex(matches, a)
            d == SunnyDayIndex(matches, a, f)
            from_a == SourceIndex(ps, a, 1)
            from_f == SourceIndex(ps, f, 2)
            from_d == SourceIndex(ps, d, 3)
        IN  /\ from_a # 0 => trend_analysis.analiz = StripLeadingMarker(ps[from_a])
            /\ from_f # 0 => trend_analysis.vliyanie = StripLeadingMarker(ps[from_f])
            /\ from_d # 0 => trend_analysis.slanchev_den = StripLeadingMarker(ps[from_d])

\* the outbound requests of one /weather-trend call, in stage order
StageOrder ==
    << Request("history", 1), Request("forecast", TrendForecastDays),
       Request("video", 0), Request("anthropic", 0) >>

\* the stage whose request was the last one issued
LastStage == IF net = <<>> THEN "none" ELSE net[Len(net)].to

\* the vendor answered the last weather fetch with a failure: the GET raised
\* or the status is not a success
VendorFailed ==
    \/ vendor.kind = "exception"
    \/ vendor.kind = "response" /\ vendor.status_code \notin 200..299

\* the weather fetch of a stage found no key
WeatherKeyMissing == ~WeatherKeyIsSet(WEATHER_API_KEY) /\ pc \notin {"idle", "historical"}

\* the error text of the failed weather fetch
FetchErrorText ==
    IF ~WeatherKeyIsSet(WEATHER_API_KEY) THEN MissingWeatherKey
    ELSE IF vendor.kind = "exception" THEN vendor.error
    ELSE StrHTTPException(vendor.status_code,
                          IF LastStage = "history" THEN HistoricalFailure ELSE ForecastFailure)

\* C15: in one /weather-trend call the outbound requests are issued in the
\* order historical fetch, forecast fetch, video probe, LLM dispatch, each
\* only with the result of the stage before it in hand; when a weather fetch
\* fails (no weather key, a non-success status, a network error) the call
\* ends with a 500 whose detail holds the stage's error text, and neither
\* the video probe nor the LLM dispatch is started.
C15_StagesInOrderAndFetchFailureStops ==
    entry = "weather_trend" =>
        /\ Len(net) <= Len(StageOrder)
        /\ \A i \in 1..Len(net) : net[i] = StageOrder[i]
        /\ pc = "historical" => net = <<>>
        /\ pc = "forecast" => LastStage = "history"
        /\ pc = "video" => LastStage = "forecast"
        /\ pc = "analyze" => LastStage = "video"
        /\ Len(net) >= 2 => historical_data \in HistoricalPayloads
        /\ Len(net) >= 3 =>
              /\ vendor.kind = "response" /\ vendor.status_code = 200
              /\ forecast_data = vendor.payload
        /\ Len(net) >= 4 => StreamProbed /\ video_analysis_text # <<>>
        /\ trend_analysis # NoResult => StreamProbed
        /\ (VendorFailed \/ WeatherKeyMissing) =>
              /\ pc = "done"
              /\ response.kind = "http_exception" /\ response.status_code = 500
              /\ Contains(response.detail, FetchErrorText)
              /\ response.detail \in
                    {HistoricalPrefix \o FetchErrorText, ForecastPrefix \o FetchErrorText}
              /\ LastStage \in {"none", "history", "forecast"}
              /\ ~StreamProbed /\ video_analysis_text = <<>>
              /\ llm = NotCalled /\ trend_analysis = NoResult

\* C15 witness: the history fetch returned, the vendor answered the forecast
\* fetch with 403, and the call ended with the 500 of the forecast stage
C15_Witness ==
    /\ entry = "weather_trend" /\ pc = "done"
    /\ net = SubSeq(StageOrder, 1, 2)
    /\ vendor.kind = "response" /\ vendor.status_code = 403
    /\ response = HTTPException(500, ForecastPrefix \o StrHTTPException(403, ForecastFailure))

====
